---- MODULE Spec2Model ----
(***************************************************************************)
(* Model of main.py, the Streamlit page that loads a regression model      *)
(* once (st.cache_resource) and predicts the distillation yield on demand. *)
(*                                                                         *)
(* One process, one interactive session.  The script is executed top to    *)
(* bottom on the first page load and again after every user interaction;   *)
(* pc is the position of the running script.  The user interacts with the  *)
(* widgets the last run rendered, once that run has ended.                 *)
(***************************************************************************)
EXTENDS Integers, Sequences, FiniteSets

(* ------------------------------ bounds --------------------------------- *)

\* Calls of joblib.load explored in one process lifetime: a run that would
\* read the artifact again is only started while fewer have been made.
MaxLoads == 3

\* How many slider positions next to each of minimum, default and maximum
\* are explored (0: exactly minimum, default and maximum).
SliderSpread == 0

(* ------------------------- program constants --------------------------- *)

FLOW_MIN == 100
FLOW_MAX == 500
FLOW_DEFAULT == 300
TEMP_MIN == 100
TEMP_MAX == 200
TEMP_DEFAULT == 130
PRESSURE_MIN == -50
PRESSURE_MAX == 50
PRESSURE_DEFAULT == 0

MODEL_PATH == "model.joblib"

Around(lo, dflt, hi) ==
    {v \in lo..hi : \/ v <= lo + SliderSpread
                    \/ v >= hi - SliderSpread
                    \/ (v >= dflt - SliderSpread /\ v <= dflt + SliderSpread)}

FlowValues == Around(FLOW_MIN, FLOW_DEFAULT, FLOW_MAX)
TempValues == Around(TEMP_MIN, TEMP_DEFAULT, TEMP_MAX)
PressureValues == Around(PRESSURE_MIN, PRESSURE_DEFAULT, PRESSURE_MAX)

\* A numeric script variable that has not been assigned in the current run.
Unset == PRESSURE_MIN - 1000

(* ------------------------------- state --------------------------------- *)

VARIABLES
    fs,            \* what is at MODEL_PATH: "missing", "corrupt", "valid"
    cache,         \* the single entry of st.cache_resource for load_model
    widgets,       \* session state of the three sliders
    clicked,       \* the run in progress was triggered by the predict button
    pc,            \* position of the script run
    model,         \* script variable model: "unset", "None", "Handle"
    flowrate,      \* script variable flowrate
    temperature,   \* script variable temperature
    pressure,      \* script variable pressure
    df_input,      \* script variable df_input (<<>> while unassigned)
    shown,         \* elements rendered by the current run, in order
    loads,         \* calls of joblib.load made in this process
    lastLoad,      \* what joblib.load did in the current run
    everFailed,    \* some call of joblib.load has raised in this process
    predicts,      \* calls of model.predict made in the current run
    lastPredict,   \* handle, argument and exception of that call
    everPredicted  \* model.predict has been called in this process

vars == <<fs, cache, widgets, clicked, pc, model, flowrate, temperature,
          pressure, df_input, shown, loads, lastLoad, everFailed, predicts,
          lastPredict, everPredicted>>

(* --------------------------- page elements ----------------------------- *)

El(kind, detail) == [el |-> kind, detail |-> detail]

Shows(kind) == \E i \in 1..Len(shown) : shown[i].el = kind

ShowsWith(kind, detail) == \E i \in 1..Len(shown) : shown[i] = El(kind, detail)

Position(kind) == CHOOSE i \in 1..Len(shown) : shown[i].el = kind

(* ---------------------------- model loader ----------------------------- *)

\* joblib.load(model_path): opening a missing file raises FileNotFoundError,
\* a file that is no valid pickle raises an unpickling error.
joblib_load(file) ==
    CASE file = "valid"   -> [raised |-> "none", value |-> "Handle"]
      [] file = "missing" -> [raised |-> "FileNotFoundError", value |-> "None"]
      [] OTHER            -> [raised |-> "UnpicklingError", value |-> "None"]

LoadCatches_Nothing(exc) == FALSE

\* The except clause of load_model.
LoadCatches(exc) == exc = "FileNotFoundError"

\* The body of load_model: what it returns, what it renders, what escapes.
load_model(file) ==
    LET r == joblib_load(file) IN
    IF r.raised = "none"
    THEN [escaped |-> "none", value |-> r.value, elems |-> <<>>]
    ELSE IF LoadCatches(r.raised)
         THEN [escaped |-> "none", value |-> "None",
               elems |-> <<El("load_error", MODEL_PATH)>>]
         ELSE [escaped |-> r.raised, value |-> "None", elems |-> <<>>]

NoEntry == [hit |-> FALSE, value |-> "None", replay |-> <<>>]

\* st.cache_resource keeps the value a call returned, with the elements the
\* call rendered; a call that raised leaves no entry.
cache_resource_store(call) ==
    IF call.escaped = "none"
    THEN [hit |-> TRUE, value |-> call.value, replay |-> call.elems]
    ELSE NoEntry

(* -------------------------- prediction block --------------------------- *)

ModelPresent_Always(m) == TRUE

\* if model is not None
ModelPresent(m) == m # "None"

st_button_Always(click) == TRUE

\* st.button is True only in the run its click triggered.
st_button(click) == click

DataFrame_Swapped(p, f, t) ==
    << [name |-> "PressureC1_diff", values |-> <<p>>],
       [name |-> "FlowC1", values |-> <<t>>],
       [name |-> "Temp1", values |-> <<f>>] >>

\* pd.DataFrame({...}): three columns in insertion order, one row.
DataFrame(p, f, t) ==
    << [name |-> "PressureC1_diff", values |-> <<p>>],
       [name |-> "FlowC1", values |-> <<f>>],
       [name |-> "Temp1", values |-> <<t>>] >>

\* What the opaque predictor may do with a record.
PredictBehaviours ==
    {"returns_float", "returns_empty", "returns_none", "raises_ValueError",
     "raises_XGBoostError"}

\* model.predict(df_input); calling it on None is an AttributeError.
model_predict(handle, df, b) ==
    IF handle # "Handle"
    THEN [raised |-> "AttributeError", ret |-> <<>>]
    ELSE CASE b = "raises_ValueError" ->
                [raised |-> "ValueError", ret |-> <<>>]
           [] b = "raises_XGBoostError" ->
                [raised |-> "XGBoostError", ret |-> <<>>]
           [] b = "returns_empty" -> [raised |-> "none", ret |-> <<>>]
           [] b = "returns_none"  -> [raised |-> "none", ret |-> <<"None">>]
           [] OTHER               -> [raised |-> "none", ret |-> <<"float">>]

\* f"{prediction_value[0]:.2f}%": the exception it raises, or "none".
FormatFirst(ret) ==
    IF Len(ret) = 0 THEN "IndexError"
    ELSE IF ret[1] # "float" THEN "TypeError"
    ELSE "none"

PredictCatches_ValueErrorOnly(exc) == exc = "ValueError"

\* except Exception: every exception the try body can raise is one.
PredictCatches(exc) ==
    exc \in {"ValueError", "XGBoostError", "TypeError", "IndexError",
             "AttributeError"}

\* The except clause, entered with the elements the try body had rendered.
Handler(exc, sofar) ==
    IF PredictCatches(exc)
    THEN [escaped |-> "none",
          elems |-> Append(sofar, El("predict_error", exc))]
    ELSE [escaped |-> exc, elems |-> sofar]

\* The try statement around model.predict.
TryPredict(handle, df, b) ==
    LET r == model_predict(handle, df, b) IN
    IF r.raised # "none"
    THEN Handler(r.raised, <<>>)
    ELSE LET f == FormatFirst(r.ret) IN
         IF f # "none"
         THEN Handler(f, <<El("subheader", "")>>)
         ELSE [escaped |-> "none",
               elems |-> <<El("subheader", ""), El("success", "NN.NN%"),
                           El("info", "")>>]

(* ------------------------------- runs ---------------------------------- *)

NoPredict == [handle |-> "unset", arg |-> <<>>, raised |-> "none"]

Init ==
    /\ fs \in {"missing", "corrupt", "valid"}
    /\ cache = NoEntry
    /\ widgets = [flowrate |-> FLOW_DEFAULT, temperature |-> TEMP_DEFAULT,
                  pressure |-> PRESSURE_DEFAULT]
    /\ clicked = FALSE
    /\ pc = "load"
    /\ model = "unset"
    /\ flowrate = Unset
    /\ temperature = Unset
    /\ pressure = Unset
    /\ df_input = <<>>
    /\ shown = <<>>
    /\ loads = 0
    /\ lastLoad = "notcalled"
    /\ everFailed = FALSE
    /\ predicts = 0
    /\ lastPredict = NoPredict
    /\ everPredicted = FALSE

\* A new run executes the script from the top on an empty page.
StartRun(click) ==
    /\ pc \in {"done", "crashed"}
    /\ cache.hit \/ loads < MaxLoads
    /\ clicked' = click
    /\ pc' = "load"
    /\ model' = "unset"
    /\ flowrate' = Unset
    /\ temperature' = Unset
    /\ pressure' = Unset
    /\ df_input' = <<>>
    /\ shown' = <<>>
    /\ lastLoad' = "notcalled"
    /\ predicts' = 0
    /\ lastPredict' = NoPredict
    /\ UNCHANGED <<fs, cache, loads, everFailed, everPredicted>>

\* The user moves one of the sliders the last run rendered.
MoveSlider ==
    /\ Shows("sidebar")
    /\ \/ \E v \in FlowValues \ {widgets.flowrate} :
             widgets' = [widgets EXCEPT !.flowrate = v]
       \/ \E v \in TempValues \ {widgets.temperature} :
             widgets' = [widgets EXCEPT !.temperature = v]
       \/ \E v \in PressureValues \ {widgets.pressure} :
             widgets' = [widgets EXCEPT !.pressure = v]
    /\ StartRun(FALSE)

\* The user presses the predict button the last run rendered.
ClickButton ==
    /\ Shows("button")
    /\ StartRun(TRUE)
    /\ UNCHANGED widgets

\* The user reruns the page without touching a widget.
Rerun ==
    /\ StartRun(FALSE)
    /\ UNCHANGED widgets

\* The artifact at MODEL_PATH is created, replaced or removed.
FileChange ==
    /\ \E f \in {"missing", "corrupt", "valid"} \ {fs} : fs' = f
    /\ UNCHANGED <<cache, widgets, clicked, pc, model, flowrate, temperature,
                   pressure, df_input, shown, loads, lastLoad, everFailed,
                   predicts, lastPredict, everPredicted>>

\* model = load_model('model.joblib') under @st.cache_resource.
LoadModel ==
    /\ pc = "load"
    /\ IF cache.hit
       THEN /\ model' = cache.value
            /\ shown' = shown \o cache.replay
            /\ pc' = "sidebar"
            /\ UNCHANGED <<cache, loads, lastLoad, everFailed>>
       ELSE LET call == load_model(fs) IN
            /\ loads' = loads + 1
            /\ lastLoad' = joblib_load(fs).raised
            /\ everFailed' = (everFailed \/ joblib_load(fs).raised # "none")
            /\ cache' = cache_resource_store(call)
            /\ IF call.escaped = "none"
               THEN /\ model' = call.value
                    /\ shown' = shown \o call.elems
                    /\ pc' = "sidebar"
               ELSE /\ model' = model
                    /\ shown' = Append(shown, El("exception", call.escaped))
                    /\ pc' = "crashed"
    /\ UNCHANGED <<fs, widgets, clicked, flowrate, temperature, pressure,
                   df_input, predicts, lastPredict, everPredicted>>

\* with st.sidebar: the three sliders return the session's widget values.
Sidebar ==
    /\ pc = "sidebar"
    /\ flowrate' = widgets.flowrate
    /\ temperature' = widgets.temperature
    /\ pressure' = widgets.pressure
    /\ shown' = Append(shown, El("sidebar", ""))
    /\ pc' = "main"
    /\ UNCHANGED <<fs, cache, widgets, clicked, model, df_input, loads,
                   lastLoad, everFailed, predicts, lastPredict, everPredicted>>

\* st.title and the welcome text.
MainContent ==
    /\ pc = "main"
    /\ shown' = Append(shown, El("title", ""))
    /\ pc' = "block"
    /\ UNCHANGED <<fs, cache, widgets, clicked, model, flowrate, temperature,
                   pressure, df_input, loads, lastLoad, everFailed, predicts,
                   lastPredict, everPredicted>>

\* What the prediction block does to the script state, predictor behaving
\* as b: the record it builds, the call it makes, the elements it renders.
BlockEffect(m, click, p, f, t, b) ==
    IF ~ModelPresent(m)
    THEN [df |-> <<>>, calls |-> 0, call |-> NoPredict, escaped |-> "none",
          elems |-> <<El("warning", "")>>]
    ELSE IF ~st_button(click)
    THEN [df |-> <<>>, calls |-> 0, call |-> NoPredict, escaped |-> "none",
          elems |-> <<El("button", "")>>]
    ELSE LET df == DataFrame(p, f, t)
             try == TryPredict(m, df, b) IN
         [df |-> df, calls |-> 1,
          call |-> [handle |-> m, arg |-> df,
                    raised |-> model_predict(m, df, b).raised],
          escaped |-> try.escaped,
          elems |-> <<El("button", "")>> \o try.elems]

PredictionBlock_Reloads ==
    /\ pc = "block"
    /\ \E b \in PredictBehaviours :
          LET e == BlockEffect(model, clicked, pressure, flowrate,
                               temperature, b) IN
          /\ df_input' = e.df
          /\ predicts' = predicts + e.calls
          /\ lastPredict' = e.call
          /\ everPredicted' = (everPredicted \/ e.calls > 0)
          /\ cache' = IF e.calls > 0 THEN NoEntry ELSE cache
          /\ IF e.escaped = "none"
             THEN /\ shown' = shown \o e.elems
                  /\ pc' = "footer"
             ELSE /\ shown' = (shown \o e.elems) \o
                                 <<El("exception", e.escaped)>>
                  /\ pc' = "crashed"
    /\ UNCHANGED <<fs, widgets, clicked, model, flowrate, temperature,
                   pressure, loads, lastLoad, everFailed>>

\* if model is not None: ... else: st.warning(...)
PredictionBlock ==
    /\ pc = "block"
    /\ \E b \in PredictBehaviours :
          LET e == BlockEffect(model, clicked, pressure, flowrate,
                               temperature, b) IN
          /\ df_input' = e.df
          /\ predicts' = predicts + e.calls
          /\ lastPredict' = e.call
          /\ everPredicted' = (everPredicted \/ e.calls > 0)
          /\ IF e.escaped = "none"
             THEN /\ shown' = shown \o e.elems
                  /\ pc' = "footer"
             ELSE /\ shown' = (shown \o e.elems) \o
                                 <<El("exception", e.escaped)>>
                  /\ pc' = "crashed"
    /\ UNCHANGED <<fs, cache, widgets, clicked, model, flowrate, temperature,
                   pressure, loads, lastLoad, everFailed>>

\* st.divider() and the explanation expander.
Footer ==
    /\ pc = "footer"
    /\ shown' = shown \o <<El("divider", ""), El("expander", "")>>
    /\ pc' = "done"
    /\ UNCHANGED <<fs, cache, widgets, clicked, model, flowrate, temperature,
                   pressure, df_input, loads, lastLoad, everFailed, predicts,
                   lastPredict, everPredicted>>

Next ==
    \/ LoadModel
    \/ Sidebar
    \/ MainContent
    \/ PredictionBlock
    \/ Footer
    \/ MoveSlider
    \/ ClickButton
    \/ Rerun
    \/ FileChange

Spec == Init /\ [][Next]_vars

(* ------------------------------ claims --------------------------------- *)

RunEnded == pc \in {"footer", "done"}

ResultElements == {"subheader", "success", "info"}

ShowsResult == \E i \in 1..Len(shown) : shown[i].el \in ResultElements

RecordOfSliders ==
    << [name |-> "PressureC1_diff", values |-> <<widgets.pressure>>],
       [name |-> "FlowC1", values |-> <<widgets.flowrate>>],
       [name |-> "Temp1", values |-> <<widgets.temperature>>] >>

\* C1: in a run where load_model returned None, model.predict is never
\* called, no predict button is offered and, once the prediction block has
\* run, the warning is on the page.
C1_AbsentHandleNeverPredicts ==
    model = "None" =>
        /\ predicts = 0
        /\ lastPredict = NoPredict
        /\ ~Shows("button")
        /\ ~ShowsResult
        /\ RunEnded => Shows("warning")

\* A degraded run, reached after the user moved a slider, that has ended
\* with the warning shown.
C1_Witness ==
    /\ model = "None"
    /\ pc = "done"
    /\ lastLoad = "notcalled"
    /\ widgets.flowrate # FLOW_DEFAULT
    /\ Shows("warning")

\* C2: an exception raised by model.predict never leaves the prediction
\* block: the run does not crash, the error message with the cause is on
\* the page, and the run goes on to render the divider and the expander.
C2_InferenceErrorCaught ==
    /\ predicts > 0 => (pc # "crashed" /\ ~Shows("exception"))
    /\ lastPredict.raised # "none" =>
          /\ ShowsWith("predict_error", lastPredict.raised)
          /\ pc = "done" => (Shows("divider") /\ Shows("expander"))

\* A run whose inference call raised and that still rendered the page end.
C2_Witness ==
    /\ lastPredict.raised = "XGBoostError"
    /\ lastPredict.handle = "Handle"
    /\ pc = "done"
    /\ ShowsWith("predict_error", "XGBoostError")
    /\ Shows("expander")

\* C3: a file that exists but cannot be deserialized is handled like a
\* missing one: load_model returns None, the run does not crash and ends
\* with the warning shown.
C3_CorruptHandledLikeMissing ==
    lastLoad = "UnpicklingError" =>
        /\ pc # "crashed"
        /\ model = "None"
        /\ RunEnded => Shows("warning")

\* C4: with no file at the path, load_model reports the error and returns
\* None without raising; the run goes on in degraded mode, with the warning
\* and without a predict action.
C4_MissingFileDegrades ==
    lastLoad = "FileNotFoundError" =>
        /\ pc # "crashed"
        /\ ~Shows("exception")
        /\ model = "None"
        /\ cache = [hit |-> TRUE, value |-> "None",
                    replay |-> <<El("load_error", MODEL_PATH)>>]
        /\ ShowsWith("load_error", MODEL_PATH)
        /\ predicts = 0
        /\ ~Shows("button")
        /\ RunEnded => Shows("warning")
        /\ pc = "done" => (Shows("divider") /\ Shows("expander"))

\* The first run on a missing file, at the end of the page.
C4_Witness ==
    /\ lastLoad = "FileNotFoundError"
    /\ pc = "done"
    /\ model = "None"
    /\ Shows("warning")
    /\ Shows("expander")

\* C5: joblib.load is called at most once in the life of the process.
C5_LoadedAtMostOnce == loads <= 1

\* C6: once a call of joblib.load has failed, it is never called again and
\* the script never holds a handle.
C6_DegradedIsTerminal ==
    [][everFailed => (loads' = loads /\ model' # "Handle")]_vars

\* C7: a run not triggered by the button makes no predict call; a run
\* triggered by it makes exactly one, and its result or error is on the
\* page before the divider is.
C7_OnePredictPerTrigger ==
    /\ predicts <= 1
    /\ ~clicked => predicts = 0
    /\ (clicked /\ pc \in {"footer", "done", "crashed"}) =>
          (predicts = 1 /\ lastPredict.handle = "Handle")
    /\ (predicts = 1 /\ Shows("divider")) =>
          \E i \in 1..Len(shown) :
             /\ shown[i].el \in {"success", "predict_error"}
             /\ i < Position("divider")

\* A run triggered by the button that made its call and ended.
C7_Witness ==
    /\ clicked
    /\ predicts = 1
    /\ pc = "done"
    /\ Shows("success")

\* C8: the record passed to model.predict is one row of PressureC1_diff,
\* FlowC1, Temp1, in that order, holding the slider values unchanged; the
\* sliders stay in their ranges, and whatever their values a triggered run
\* makes the call.
C8_RecordIsSliders ==
    /\ widgets.pressure \in PRESSURE_MIN..PRESSURE_MAX
    /\ widgets.flowrate \in FLOW_MIN..FLOW_MAX
    /\ widgets.temperature \in TEMP_MIN..TEMP_MAX
    /\ predicts > 0 =>
          (lastPredict.arg = RecordOfSliders /\ df_input = RecordOfSliders)
    /\ (clicked /\ RunEnded) => predicts = 1

\* The boundary combination flow=100, temperature=200, pressure=-50 has
\* been passed to model.predict.
C8_Witness ==
    /\ predicts = 1
    /\ lastPredict.arg =
          << [name |-> "PressureC1_diff", values |-> <<-50>>],
             [name |-> "FlowC1", values |-> <<100>>],
             [name |-> "Temp1", values |-> <<200>>] >>
    /\ pc = "done"

\* C9: the prediction block leaves the cached handle and the script's model
\* as they were, and a run not triggered by the button shows neither a
\* result nor a prediction error.
C9_InvocationLeavesNoState ==
    [][ /\ pc = "block" => (cache' = cache /\ model' = model)
        /\ ~clicked' => (~ShowsResult' /\ ~Shows("predict_error")') ]_vars

\* A run not triggered by the button, after an earlier invocation, at the
\* end of the page with the handle still present.
C9_Witness ==
    /\ everPredicted
    /\ ~clicked
    /\ pc = "done"
    /\ model = "Handle"
    /\ cache.value = "Handle"
    /\ ~ShowsResult

\* C10: an invocation ends with the three result elements and no error, or
\* with the error message and no result element.
C10_ResultOrErrorOnly ==
    (predicts = 1 /\ RunEnded) =>
        \/ /\ Shows("subheader") /\ Shows("success") /\ Shows("info")
           /\ ~Shows("predict_error")
        \/ /\ Shows("predict_error")
           /\ ~ShowsResult

====
